---- MODULE Spec2Model ----
(***************************************************************************)
(* Model of the portfolio visual-effects layer: the ImageTrail pointer     *)
(* trail with its visibility-gated frame loop, the TouchImageEffect tap    *)
(* effect with its cooldown, and the preloader sequencers of src/main.js   *)
(* and of the older variants kept in src/config.js.                        *)
(***************************************************************************)
EXTENDS Integers, Sequences, FiniteSets, TLC

VARIABLES
    trail,      \* the ImageTrail instance (fields of the object, plus the browser's
                \* list of pending animation-frame callbacks and the stamps made)
    moves,      \* number of mousemove events delivered so far
    ev,         \* the kind of the last event delivered to the trail
    scen,       \* monitor of the three-step scenario of frame checks
    touch,      \* the TouchImageEffect instance (fields of the object, and the stamps made)
    ontouchstart, \* 'ontouchstart' in window: the device is touch-capable
    now,        \* the last reading of Date.now()
    taps,       \* the events delivered to onTap, in order, with what each did
    seq         \* the page and the preloader sequencer of the DOMContentLoaded handler

trailVars == <<trail, moves, ev, scen>>
tapVars == <<touch, ontouchstart, now, taps>>

vars == <<trailVars, tapVars, seq>>

----------------------------------------------------------------------------
(* Bounds of the model *)

MaxPool == 3        \* largest image pool
MaxMoves == 4       \* mousemove events per run
MaxHandles == 3     \* distinct animation-frame handles in use at one time
MaxTaps == 3        \* touchstart/click events per run
MaxImages == 2      \* hero images discovered by the glob
MaxAnimEnds == 2    \* animationend events on the signature path per run
MaxCards == 2       \* .exp-card elements
MaxLinks == 2       \* .contact-link elements
MaxEnters == 3      \* onEnter callbacks of the scroll triggers per run
MaxEvents == 2      \* pointer and tap events per run when both effects run together

----------------------------------------------------------------------------
(* ImageTrail: src/main.js 9-126 *)

threshold == 80

null == 0           \* rafId = null; real handles are positive

Pos(px, py) == [x |-> px, y |-> py]

\* container-local pointer positions the events carry; (48,64) is exactly 80 from (0,0)
Positions == {Pos(0, 0), Pos(48, 64), Pos(0, 100), Pos(0, 150), Pos(0, 250)}

\* Math.hypot(x2 - x1, y2 - y1) squared: the distance is compared with the
\* threshold through the squares, hypot > t exactly when hypot^2 > t^2
getDistanceSq(x1, y1, x2, y2) == (x2 - x1) * (x2 - x1) + (y2 - y1) * (y2 - y1)

\* the image pools: the .image-trail__img elements of the container
Pools == {[i \in 1..n |-> i] : n \in 0..MaxPool}

\* state after the constructor, for a container holding the images imgs
ImageTrailNew(imgs, hasHero) ==
    [ images     |-> imgs,
      imgIndex   |-> 0,
      zIndex     |-> 1,
      mousePos   |-> Pos(0, 0),
      cachePos   |-> Pos(0, 0),
      isActive   |-> FALSE,
      rafId      |-> null,
      hero       |-> hasHero,      \* init() found the .hero ancestor and registered
      rafPending |-> {},           \* handles of frame callbacks requested, not yet run
      stamps     |-> <<>>,         \* images stamped so far: pool index and z-index given
      checked    |-> FALSE ]       \* the last event handler called render()

\* showNextImage with the cache update left out
showNextImage_NoCache(s) ==
    IF s.imgIndex >= Len(s.images) THEN s
    ELSE [s EXCEPT !.zIndex = @ + 1,
                   !.stamps = Append(@, [idx |-> s.imgIndex, z |-> s.zIndex + 1]),
                   !.imgIndex = (@ + 1) % Len(s.images)]

\* showNextImage that does not advance the pool cursor
showNextImage_NoAdvance(s) ==
    IF s.imgIndex >= Len(s.images) THEN s
    ELSE [s EXCEPT !.zIndex = @ + 1,
                   !.stamps = Append(@, [idx |-> s.imgIndex, z |-> s.zIndex + 1]),
                   !.cachePos = s.mousePos]

\* showNextImage that raises the stacking counter before it looks for the image
showNextImage_CountFirst(s) ==
    IF s.imgIndex >= Len(s.images) THEN [s EXCEPT !.zIndex = @ + 1]
    ELSE [s EXCEPT !.zIndex = @ + 1,
                   !.stamps = Append(@, [idx |-> s.imgIndex, z |-> s.zIndex + 1]),
                   !.imgIndex = (@ + 1) % Len(s.images),
                   !.cachePos = s.mousePos]

\* showNextImage that gives every stamp the same z-index
showNextImage_NoStack(s) ==
    IF s.imgIndex >= Len(s.images) THEN s
    ELSE [s EXCEPT !.stamps = Append(@, [idx |-> s.imgIndex, z |-> s.zIndex]),
                   !.imgIndex = (@ + 1) % Len(s.images),
                   !.cachePos = s.mousePos]

showNextImage(s) ==
    IF s.imgIndex >= Len(s.images) THEN s          \* if (!img) return
    ELSE [s EXCEPT !.zIndex = @ + 1,
                   !.stamps = Append(@, [idx |-> s.imgIndex, z |-> s.zIndex + 1]),
                   !.imgIndex = (@ + 1) % Len(s.images),
                   !.cachePos = s.mousePos]

\* render that stamps at the threshold too (>= instead of >)
render_AtThreshold(s) ==
    LET c == [s EXCEPT !.checked = TRUE]
    IN  IF getDistanceSq(s.mousePos.x, s.mousePos.y, s.cachePos.x, s.cachePos.y) >= threshold * threshold
        THEN showNextImage(c) ELSE c

render(s) ==
    LET c == [s EXCEPT !.checked = TRUE]
    IN  IF getDistanceSq(s.mousePos.x, s.mousePos.y, s.cachePos.x, s.cachePos.y) > threshold * threshold
        THEN showNextImage(c) ELSE c

\* requestAnimationFrame: a handle no pending callback has and rafId does not hold
FreeHandles(s) == {h \in 1..MaxHandles : h \notin s.rafPending /\ h # s.rafId}

requestAnimationFrame(s) == CHOOSE h \in FreeHandles(s) : \A g \in FreeHandles(s) : h <= g

startLoop(s) ==
    IF ~s.isActive THEN s
    ELSE LET r == render(s)
             h == requestAnimationFrame(r)
         IN  [r EXCEPT !.rafId = h, !.rafPending = @ \cup {h}]

\* observer callback that starts a loop on every intersecting notification
observerCallback_NoRafCheck(s, isIntersecting) ==
    LET a == [s EXCEPT !.isActive = isIntersecting]
    IN  IF a.isActive THEN startLoop(a)
        ELSE IF a.rafId # null
        THEN [a EXCEPT !.rafPending = @ \ {a.rafId}, !.rafId = null]
        ELSE a

\* observer callback that leaves the requested frame callback in place on leaving
observerCallback_NoCancel(s, isIntersecting) ==
    LET a == [s EXCEPT !.isActive = isIntersecting]
    IN  IF a.isActive /\ a.rafId = null THEN startLoop(a) ELSE a

\* observer callback that cancels the frame callback and keeps its handle in rafId
observerCallback_NoReset(s, isIntersecting) ==
    LET a == [s EXCEPT !.isActive = isIntersecting]
    IN  IF a.isActive /\ a.rafId = null THEN startLoop(a)
        ELSE IF ~a.isActive /\ a.rafId # null
        THEN [a EXCEPT !.rafPending = @ \ {a.rafId}]
        ELSE a

\* the IntersectionObserver callback of init(), entries[0].isIntersecting given
observerCallback(s, isIntersecting) ==
    LET a == [s EXCEPT !.isActive = isIntersecting]
    IN  IF a.isActive /\ a.rafId = null THEN startLoop(a)
        ELSE IF ~a.isActive /\ a.rafId # null
        THEN [a EXCEPT !.rafPending = @ \ {a.rafId}, !.rafId = null]   \* cancelAnimationFrame
        ELSE a

onMouseMove(s, p) == [s EXCEPT !.mousePos = p]

\* the browser runs the frame callback h, which calls startLoop
frameCallback(s, h) == startLoop([s EXCEPT !.rafPending = @ \ {h}])

\* entry of an event handler: no render() call made yet
Enter(s) == [s EXCEPT !.checked = FALSE]

\* the browser can hand out a handle
CanRequest(s) == FreeHandles(s) # {}

----------------------------------------------------------------------------
(* TouchImageEffect: src/main.js 129-221 *)

tapCooldown == 150

\* Date.now() when the instance is constructed: epoch milliseconds, far above the cooldown
StartTime == 1000

\* milliseconds between one event and the next
Delays == {0, 100, 150, 200}

\* container-local tap positions
TapPositions == {Pos(50, 50), Pos(52, 52)}

EventTypes(hasTouch) == IF hasTouch THEN {"touchstart", "click"} ELSE {"click"}

\* state after the constructor
TouchImageEffectNew(imgs, hasHero) ==
    [ images      |-> imgs,
      imgIndex    |-> 0,
      zIndex      |-> 1,
      lastTapTime |-> 0,
      hero        |-> hasHero,     \* init() found the .hero ancestor and registered
      stamps      |-> <<>> ]       \* images stamped so far: pool index, z-index, position

\* showImageAtPosition that advances the cursor without the modulo
showImageAtPosition_NoWrap(s, x, y) ==
    IF s.imgIndex >= Len(s.images) THEN s
    ELSE [s EXCEPT !.zIndex = @ + 1,
                   !.stamps = Append(@, [idx |-> s.imgIndex, z |-> s.zIndex + 1,
                                         x |-> x, y |-> y]),
                   !.imgIndex = @ + 1]

\* showImageAtPosition that stamps and leaves the cursor where it is
showImageAtPosition_NoAdvance(s, x, y) ==
    IF s.imgIndex >= Len(s.images) THEN s
    ELSE [s EXCEPT !.zIndex = @ + 1,
                   !.stamps = Append(@, [idx |-> s.imgIndex, z |-> s.zIndex + 1,
                                         x |-> x, y |-> y])]

showImageAtPosition(s, x, y) ==
    IF s.imgIndex >= Len(s.images) THEN s          \* if (!img) return
    ELSE [s EXCEPT !.zIndex = @ + 1,
                   !.stamps = Append(@, [idx |-> s.imgIndex, z |-> s.zIndex + 1,
                                         x |-> x, y |-> y]),
                   !.imgIndex = (@ + 1) % Len(s.images)]

\* onTap without the cooldown check
onTap_NoCooldown(s, e, t, hasTouch) ==
    LET a == [s EXCEPT !.lastTapTime = t]
    IN  IF e.type = "click" /\ hasTouch THEN a
        ELSE showImageAtPosition(a, e.x, e.y)

\* onTap that never ignores a click
onTap_NoClickCheck(s, e, t, hasTouch) ==
    IF t - s.lastTapTime < tapCooldown THEN s
    ELSE showImageAtPosition([s EXCEPT !.lastTapTime = t], e.x, e.y)

\* onTap that ignores every click, on any device
onTap_NoDeviceCheck(s, e, t, hasTouch) ==
    IF t - s.lastTapTime < tapCooldown THEN s
    ELSE LET a == [s EXCEPT !.lastTapTime = t]
         IN  IF e.type = "click" THEN a
             ELSE showImageAtPosition(a, e.x, e.y)

\* onTap(e) with now = t and 'ontouchstart' in window = hasTouch
onTap(s, e, t, hasTouch) ==
    IF t - s.lastTapTime < tapCooldown THEN s
    ELSE LET a == [s EXCEPT !.lastTapTime = t]
         IN  IF e.type = "click" /\ hasTouch THEN a
             ELSE showImageAtPosition(a, e.x, e.y)

----------------------------------------------------------------------------
(* The preloader sequencer: the DOMContentLoaded handler of src/main.js 587-687 *)
(* and the one of the older variant, src/config.js 449-522                      *)

\* unlockAndInit's calls, in order
InitOrder(variant) ==
    IF variant = "main"
    THEN << "initLenis", "initImageTrail", "initHero", "initAbout", "initSkills",
            "initProjects", "initExperience", "initSectionTitles", "initFooter",
            "initContactLinks" >>
    ELSE << "initLenis", "initImageTrail", "initHero", "initAbout", "initSkills",
            "initProjects", "initExperience", "initSectionTitles", "initFooter" >>

\* elements the initializers dereference without a guard
Elements == {"heroContainer", "skills"}

\* elements the initializers look up and return early without
GuardedElements == {"magneticBtn", "contactLinks"}

\* the initializer throws: it dereferences an element that is not in the document
Throws(name, present) ==
    \/ name = "initHero" /\ "heroContainer" \notin present      \* heroContainer.classList
    \/ name = "initSkills" /\ "skills" \notin present           \* section.addEventListener

\* the initializers entered by one run through order: up to the first that throws
RECURSIVE Ran(_, _)
Ran(order, present) ==
    IF order = <<>> THEN <<>>
    ELSE IF Throws(Head(order), present) THEN << Head(order) >>
    ELSE << Head(order) >> \o Ran(Tail(order), present)

\* the initializer returns at its guard: the element it looks up is not in the document
Skips(name, hasTrail, present) ==
    \/ name = "initImageTrail" /\ ~hasTrail                       \* if (!container) return
    \/ name = "initFooter" /\ "magneticBtn" \notin present         \* if (!btn) return
    \/ name = "initContactLinks" /\ "contactLinks" \notin present  \* if (contactLinks.length === 0) return

Completes(order, present) == \A i \in 1..Len(order) : ~Throws(order[i], present)

\* the page when the DOMContentLoaded handler has returned
\*   sigPath: "none" (no #sig-path), "path" (an SVG path), "other" (an element
\*   without getTotalLength, so the promise executor throws)
PageLoaded(variant, hasPreloader, sigPath, hasTrail, nImages, present) ==
    LET decoding == IF variant = "main" /\ hasTrail THEN 1..nImages ELSE {}
        appended == IF variant = "main" \/ ~hasTrail THEN <<>> ELSE [i \in 1..nImages |-> i]
    IN
    [ variant      |-> variant,
      hasPreloader |-> hasPreloader,
      sigPath      |-> sigPath,
      hasTrail     |-> hasTrail,
      nImages      |-> nImages,
      present      |-> present,
      decoding     |-> decoding,            \* images whose decode() is not settled
      appended     |-> appended,            \* images in the trail container, in order
      decodeFailed |-> {},                  \* images whose decode() was rejected (warned about)
      imagesLoaded |-> IF decoding = {} THEN "resolved" ELSE "pending",
      signature    |-> IF sigPath = "none" THEN "resolved"
                       ELSE IF sigPath = "other" THEN "rejected" ELSE "pending",
      listening    |-> sigPath = "path",    \* the animationend listener is registered
      drawn        |-> FALSE,
      joined       |-> "pending",           \* Promise.all: which handler has run
      timers       |-> IF variant = "config" /\ sigPath = "none"
                       THEN << [name |-> "fallback", left |-> 2000] >> ELSE <<>>,
      fadeOut      |-> FALSE,               \* .preloader has the class fade-out
      hidden       |-> FALSE,               \* .preloader is display: none
      isLoading    |-> TRUE,                \* the scroll lock class on <html>
      unlockCount  |-> 0,                   \* calls of unlockAndInit
      initLog      |-> <<>>,                \* the initializers entered, in order
      wired        |-> <<>>,                \* those that went on to set up their section
      resizeHooks  |-> 0,                   \* times the orientationchange/resize listeners were added
      pool         |-> <<>>,                \* the images initImageTrail's components snapshot
      order        |-> <<>>,                \* the two completions, in the order they happened
      animEnds     |-> 0,                   \* animationend events so far
      clock        |-> 0,                   \* milliseconds since DOMContentLoaded
      errors       |-> 0 ]                  \* uncaught exceptions in callbacks

setTimeout(s, name, ms) == [s EXCEPT !.timers = Append(@, [name |-> name, left |-> ms])]

\* unlockAndInit with every initializer called in its own try block
unlockAndInit_TryEach(s) ==
    LET order == InitOrder(s.variant)
        Works(name) == ~Throws(name, s.present) /\ ~Skips(name, s.hasTrail, s.present)
    IN  [s EXCEPT !.isLoading = FALSE,
                  !.unlockCount = @ + 1,
                  !.initLog = @ \o order,
                  !.wired = @ \o SelectSeq(order, Works),
                  !.pool = IF s.hasTrail THEN s.appended ELSE @,
                  !.resizeHooks = IF s.variant = "main" THEN @ + 1 ELSE @]

unlockAndInit(s) ==
    LET order == InitOrder(s.variant)
        ran == Ran(order, s.present)
        done == Completes(order, s.present)
        Works(name) == ~Throws(name, s.present) /\ ~Skips(name, s.hasTrail, s.present)
    IN  [s EXCEPT !.isLoading = FALSE,
                  !.unlockCount = @ + 1,
                  !.initLog = @ \o ran,
                  !.wired = @ \o SelectSeq(ran, Works),
                  !.pool = IF s.hasTrail THEN s.appended ELSE @,
                  !.resizeHooks = IF done /\ s.variant = "main" THEN @ + 1 ELSE @,
                  !.errors = IF done THEN @ ELSE @ + 1]

\* a decode() rejection handler that warns and leaves the image out
imageSettled_DropFailed(s, i, ok) ==
    LET left == s.decoding \ {i}
    IN  [s EXCEPT !.decoding = left,
                  !.appended = IF ok THEN Append(@, i) ELSE @,
                  !.decodeFailed = IF ok THEN @ ELSE @ \cup {i},
                  !.imagesLoaded = IF left = {} THEN "resolved" ELSE @,
                  !.order = IF left = {} THEN Append(@, "images") ELSE @]

\* img.decode() of image i settles: fulfilled (ok), the .then handler appends the
\* image; rejected, the .catch handler warns and appends it; the last one to
\* settle fulfils Promise.all(imagePromises), which resolves the promise of
\* initHeroImages
imageSettled(s, i, ok) ==
    LET left == s.decoding \ {i}
    IN  [s EXCEPT !.decoding = left,
                  !.appended = Append(@, i),
                  !.decodeFailed = IF ok THEN @ ELSE @ \cup {i},
                  !.imagesLoaded = IF left = {} THEN "resolved" ELSE @,
                  !.order = IF left = {} THEN Append(@, "images") ELSE @]

\* main.js: the animationend listener, registered with { once: true }
animationEnd(s) ==
    IF ~s.listening THEN s
    ELSE [s EXCEPT !.listening = FALSE,
                   !.drawn = TRUE,
                   !.signature = "resolved",
                   !.order = Append(@, "signature")]

\* config.js: the animationend listener, which stays registered
animationEndOld(s) ==
    IF ~s.listening THEN s
    ELSE setTimeout([s EXCEPT !.drawn = TRUE], "glow", 600)

\* Promise.all as a race: fulfilled as soon as one of the two is
joinFulfilled_Race(s) == s.imagesLoaded = "resolved" \/ s.signature = "resolved"

\* Promise.all([imagesLoadedPromise, signatureAnimationPromise]) is fulfilled
joinFulfilled(s) == s.imagesLoaded = "resolved" /\ s.signature = "resolved"

joinRejected(s) == s.imagesLoaded = "rejected" \/ s.signature = "rejected"

\* the .then handler
allThen(s) == setTimeout([s EXCEPT !.joined = "then"], "buffer", 600)

\* a .catch handler that fades the preloader out and leaves the site locked
allCatch_NoUnlock(s) ==
    IF ~s.hasPreloader THEN [s EXCEPT !.joined = "catch", !.errors = @ + 1]
    ELSE [s EXCEPT !.joined = "catch", !.fadeOut = TRUE]

\* the .catch handler; preloader.classList throws when there is no .preloader
allCatch(s) ==
    IF ~s.hasPreloader THEN [s EXCEPT !.joined = "catch", !.errors = @ + 1]
    ELSE setTimeout([s EXCEPT !.joined = "catch", !.fadeOut = TRUE], "forced", 1000)

----------------------------------------------------------------------------
(* The text-line preloader: the DOMContentLoaded handler of src/config.js 832-870 *)

steps == << "> CONNECTING TO DATABASE...", "> LOADING JAVA MODULES...",
            "> INITIALIZING CREATIVE ENGINE...", "> ACCESS GRANTED." >>

\* the calls of the reveal tween's onComplete, in order
TypedOrder == << "initImageTrail", "initHero", "initAbout", "initSkills",
                 "initProjects", "initExperience", "initFooter" >>

\* elements this variant dereferences without a guard
TypedElements == {"preloaderText", "skills", "magneticBtn"}

TypedThrows(name, present) ==
    \/ name = "initSkills" /\ "skills" \notin present          \* section.addEventListener
    \/ name = "initFooter" /\ "magneticBtn" \notin present     \* btn.querySelector

RECURSIVE TypedRan(_, _)
TypedRan(order, present) ==
    IF order = <<>> THEN <<>>
    ELSE IF TypedThrows(Head(order), present) THEN << Head(order) >>
    ELSE << Head(order) >> \o TypedRan(Tail(order), present)

\* typeWriter that shows the next line without waiting
typeWriter_NoWait(s) ==
    IF s.step < Len(steps)
    THEN IF "preloaderText" \notin s.present THEN [s EXCEPT !.errors = @ + 1]
         ELSE setTimeout([s EXCEPT !.shown = Append(@, [text |-> steps[s.step + 1], t |-> s.clock]),
                                   !.step = @ + 1], "typeWriter", 0)
    ELSE setTimeout([s EXCEPT !.tweens = @ + 1], "reveal", 2000)

\* typeWriter(): shows steps[step] and sets the 800 ms timer, or, past the last
\* line, starts the reveal tween (delay 0.5 s, duration 1.5 s)
typeWriter(s) ==
    IF s.step < Len(steps)
    THEN IF "preloaderText" \notin s.present THEN [s EXCEPT !.errors = @ + 1]   \* textElement is null
         ELSE setTimeout([s EXCEPT !.shown = Append(@, [text |-> steps[s.step + 1], t |-> s.clock]),
                                   !.step = @ + 1], "typeWriter", 800)
    ELSE setTimeout([s EXCEPT !.tweens = @ + 1], "reveal", 2000)

\* onComplete of the reveal tween
revealComplete(s) ==
    LET ran == TypedRan(TypedOrder, s.present)
    IN  [s EXCEPT !.revealed = TRUE,
                  !.initLog = @ \o ran,
                  !.pool = IF s.hasTrail THEN s.appended ELSE @,
                  !.errors = IF Len(ran) = Len(TypedOrder) /\ ~TypedThrows("initFooter", s.present)
                             THEN @ ELSE @ + 1]

\* the page when the DOMContentLoaded handler has returned: initLenis() and the
\* first call of typeWriter() made
TypedLoaded(hasTrail, imgs, present) ==
    typeWriter([ variant     |-> "typed",
                 hasTrail    |-> hasTrail,
                 appended    |-> imgs,       \* the .image-trail__img elements of the page
                 present     |-> present,
                 smoothScroll |-> TRUE,      \* initLenis() has run
                 step        |-> 0,
                 shown       |-> <<>>,       \* the lines displayed, with the time of each
                 timers      |-> <<>>,
                 clock       |-> 0,
                 tweens      |-> 0,          \* reveal tweens started
                 revealed    |-> FALSE,      \* the reveal tween has completed
                 initLog     |-> <<>>,
                 pool        |-> <<>>,
                 errors      |-> 0 ])

----------------------------------------------------------------------------
(* The staggered reveals: initExperience, src/main.js 369-400, and *)
(* initContactLinks, src/main.js 451-505                           *)

\* the .exp-card and .contact-link elements, by index
CardNames == << "card0", "card1", "card2", "card3" >>

LinkNames == << "link0", "link1", "link2", "link3" >>

Card(i) == CardNames[i + 1]

Link(i) == LinkNames[i + 1]

\* the page when unlockAndInit has created the scroll triggers
RevealLoaded(nCards, nLinks) ==
    [ variant |-> "reveal",
      cards   |-> nCards,
      links   |-> nLinks,
      inside  |-> {},       \* triggers past their start: onEnter fired last
      gone    |-> {},       \* elements whose trigger fired onLeaveBack last
      visible |-> {},       \* elements carrying the class is-visible
      enters  |-> 0,        \* onEnter callbacks so far
      timers  |-> <<>>,
      clock   |-> 0 ]

\* onEnter of the trigger of card i: the reveal is delayed by index * 0.15 s
cardEnter(s, i) ==
    setTimeout([s EXCEPT !.inside = @ \cup {Card(i)},
                         !.gone = @ \ {Card(i)},
                         !.enters = @ + 1], Card(i), i * 150)

\* onLeaveBack of the trigger of card i
cardLeaveBack(s, i) ==
    [s EXCEPT !.inside = @ \ {Card(i)},
              !.gone = @ \cup {Card(i)},
              !.visible = @ \ {Card(i)}]

\* contactLinks.forEach from link i on: setTimeout(..., index * 100)
RECURSIVE linkTimers(_, _)
linkTimers(s, i) ==
    IF i >= s.links THEN s
    ELSE linkTimers(setTimeout(s, Link(i), i * 100), i + 1)

AllLinks(s) == {Link(i) : i \in 0..(s.links - 1)}

\* onEnter of the trigger of .contact-links
linksEnter(s) ==
    linkTimers([s EXCEPT !.inside = @ \cup {"contactLinks"},
                         !.gone = @ \ AllLinks(s),
                         !.enters = @ + 1], 0)

\* onLeaveBack of the trigger of .contact-links
linksLeaveBack(s) ==
    [s EXCEPT !.inside = @ \ {"contactLinks"},
              !.gone = @ \cup AllLinks(s),
              !.visible = @ \ AllLinks(s)]

\* the callback of a reveal timer: classList.add('is-visible')
reveal(s, el) == [s EXCEPT !.visible = @ \cup {el}]

IsElement(name) ==
    \E i \in 1..Len(CardNames) : name = CardNames[i] \/ name = LinkNames[i]

----------------------------------------------------------------------------
(* Timers *)

\* the callback of the timer called name
timerCallback(s, name) ==
    CASE IsElement(name) -> reveal(s, name)
      [] name = "typeWriter" -> typeWriter(s)
      [] name = "reveal" -> revealComplete(s)
      [] name \in {"buffer", "glow"} ->
           IF ~s.hasPreloader THEN [s EXCEPT !.errors = @ + 1]
           ELSE setTimeout(setTimeout([s EXCEPT !.fadeOut = TRUE], "unlock", 400), "hide", 1200)
      [] name \in {"unlock", "forced"} -> unlockAndInit(s)
      [] name = "hide" -> [s EXCEPT !.hidden = TRUE]
      [] name = "fallback" ->
           IF ~s.hasPreloader THEN [s EXCEPT !.errors = @ + 1]
           ELSE setTimeout([s EXCEPT !.fadeOut = TRUE], "hideUnlock", 1000)
      [] name = "hideUnlock" -> unlockAndInit([s EXCEPT !.hidden = TRUE])

\* index of the timer to run next: the first of those that are due
DueTimer(s) == CHOOSE i \in 1..Len(s.timers) :
                  /\ s.timers[i].left = 0
                  /\ \A j \in 1..(i - 1) : s.timers[j].left # 0

Without(q, i) == [k \in 1..(Len(q) - 1) |-> IF k < i THEN q[k] ELSE q[k + 1]]

\* time to the next timer
NextDue(s) == CHOOSE d \in {s.timers[i].left : i \in 1..Len(s.timers)} :
                 \A i \in 1..Len(s.timers) : d <= s.timers[i].left

----------------------------------------------------------------------------
(* The scenario monitor: scen = k when the frame checks made so far are exactly *)
(* the first k steps of the script (checks at the untouched start position     *)
(* before the first step aside), -1 once the run has left the script.          *)

Script == << Pos(0, 100), Pos(0, 150), Pos(0, 250) >>

ScenStep(k, p) ==
    IF k = 0 /\ p = Pos(0, 0) THEN 0
    ELSE IF k >= 0 /\ k < Len(Script) /\ p = Script[k + 1] THEN k + 1
    ELSE -1

ScenNext == scen' = IF trail'.checked THEN ScenStep(scen, trail.mousePos) ELSE scen

----------------------------------------------------------------------------
(* States of the components a specification leaves aside *)

TrailIdle ==
    /\ trail = ImageTrailNew(<<>>, FALSE)
    /\ moves = 0
    /\ ev = "none"
    /\ scen = 0

TapIdle ==
    /\ touch = TouchImageEffectNew(<<>>, FALSE)
    /\ ontouchstart = FALSE
    /\ now = StartTime
    /\ taps = <<>>

SeqIdle == seq = PageLoaded("idle", FALSE, "none", FALSE, 0, {})

----------------------------------------------------------------------------
(* Specification of one ImageTrail instance *)

TrailInit ==
    /\ TapIdle
    /\ SeqIdle
    /\ trail \in {ImageTrailNew(imgs, h) : imgs \in Pools, h \in BOOLEAN}
    /\ moves = 0
    /\ ev = "none"
    /\ scen = 0

MouseMove ==
    /\ trail.hero
    /\ moves < MaxMoves
    /\ \E p \in Positions : trail' = onMouseMove(Enter(trail), p)
    /\ moves' = moves + 1
    /\ ev' = "move"
    /\ ScenNext
    /\ UNCHANGED <<tapVars, seq>>

Intersect ==
    /\ trail.hero
    /\ CanRequest(trail)
    /\ \E v \in BOOLEAN :
          /\ trail' = observerCallback(Enter(trail), v)
          /\ ev' = IF v = trail.isActive THEN "repeat" ELSE IF v THEN "enter" ELSE "leave"
    /\ ScenNext
    /\ UNCHANGED <<moves, tapVars, seq>>

Frame ==
    /\ \E h \in trail.rafPending :
          /\ CanRequest([trail EXCEPT !.rafPending = @ \ {h}])
          /\ trail' = frameCallback(Enter(trail), h)
    /\ ev' = "frame"
    /\ ScenNext
    /\ UNCHANGED <<moves, tapVars, seq>>

TrailNext == MouseMove \/ Intersect \/ Frame

SpecTrail == TrailInit /\ [][TrailNext]_vars

\* the browser runs a requested frame callback
SpecTrailFair == SpecTrail /\ WF_vars(Frame)

----------------------------------------------------------------------------
(* Specification of one TouchImageEffect instance *)

TapInit ==
    /\ TrailIdle
    /\ SeqIdle
    /\ touch \in {TouchImageEffectNew(imgs, h) : imgs \in Pools, h \in BOOLEAN}
    /\ ontouchstart \in BOOLEAN
    /\ now = StartTime
    /\ taps = <<>>

\* a touchstart or click reaches onTap, d milliseconds after the previous event
Tap ==
    /\ touch.hero
    /\ Len(taps) < MaxTaps
    /\ \E type \in EventTypes(ontouchstart), p \in TapPositions, d \in Delays :
          LET e == [type |-> type, x |-> p.x, y |-> p.y]
              after == onTap(touch, e, now + d, ontouchstart)
          IN  /\ now' = now + d
              /\ touch' = after
              /\ taps' = Append(taps, [type |-> type, x |-> p.x, y |-> p.y, t |-> now + d,
                                       passed |-> after.lastTapTime # touch.lastTapTime,
                                       stamped |-> Len(after.stamps) > Len(touch.stamps)])
    /\ UNCHANGED <<ontouchstart, trailVars, seq>>

TapNext == Tap

SpecTap == TapInit /\ [][TapNext]_vars

----------------------------------------------------------------------------
(* Specification of the two effects initImageTrail builds on one container: *)
(* each instance takes its own list of the same .image-trail__img elements  *)
(* and listens on the same .hero element                                    *)

EffectsInit ==
    /\ SeqIdle
    /\ \E imgs \in Pools, h \in BOOLEAN :
          /\ trail = ImageTrailNew(imgs, h)
          /\ touch = TouchImageEffectNew(imgs, h)
    /\ moves = 0
    /\ ev = "none"
    /\ scen = 0
    /\ ontouchstart \in BOOLEAN
    /\ now = StartTime
    /\ taps = <<>>

EventsLeft == moves + Len(taps) < MaxEvents

EffectsNext ==
    \/ EventsLeft /\ MouseMove
    \/ Intersect
    \/ Frame
    \/ EventsLeft /\ Tap

SpecEffects == EffectsInit /\ [][EffectsNext]_vars

----------------------------------------------------------------------------
(* Specification of the two effects on a device without touch: the pointer is *)
(* fine, so initImageTrail builds both instances, and only clicks reach onTap *)

StackInit ==
    /\ SeqIdle
    /\ \E imgs \in Pools :
          /\ trail = ImageTrailNew(imgs, TRUE)
          /\ touch = TouchImageEffectNew(imgs, TRUE)
    /\ moves = 0
    /\ ev = "none"
    /\ scen = 0
    /\ ontouchstart = FALSE
    /\ now = StartTime
    /\ taps = <<>>

\* one event more than EventsLeft allows
StackEventsLeft == moves + Len(taps) <= MaxEvents

StackNext ==
    \/ StackEventsLeft /\ MouseMove
    \/ Intersect
    \/ Frame
    \/ StackEventsLeft /\ Tap

SpecStack == StackInit /\ [][StackNext]_vars

----------------------------------------------------------------------------
(* Specification of the sequencer of src/main.js *)

SeqInit ==
    /\ TrailIdle
    /\ TapIdle
    /\ seq \in {PageLoaded("main", pre, sig, tr, n, present) :
                  pre \in BOOLEAN, sig \in {"none", "path", "other"}, tr \in BOOLEAN,
                  n \in 0..MaxImages, present \in SUBSET (Elements \cup GuardedElements)}

ImageSettle ==
    /\ \E i \in seq.decoding, ok \in BOOLEAN : seq' = imageSettled(seq, i, ok)
    /\ UNCHANGED <<trailVars, tapVars>>

AnimationEnd ==
    /\ seq.sigPath = "path"
    /\ seq.animEnds < MaxAnimEnds
    /\ seq' = animationEnd([seq EXCEPT !.animEnds = @ + 1])
    /\ UNCHANGED <<trailVars, tapVars>>

AllThen ==
    /\ seq.joined = "pending"
    /\ joinFulfilled(seq)
    /\ ~joinRejected(seq)
    /\ seq' = allThen(seq)
    /\ UNCHANGED <<trailVars, tapVars>>

AllCatch ==
    /\ seq.joined = "pending"
    /\ joinRejected(seq)
    /\ seq' = allCatch(seq)
    /\ UNCHANGED <<trailVars, tapVars>>

\* the clock reaches the next timer
Tick ==
    /\ seq.timers # <<>>
    /\ \A i \in 1..Len(seq.timers) : seq.timers[i].left > 0
    /\ seq' = [seq EXCEPT !.timers =
                  [i \in 1..Len(seq.timers) |-> [seq.timers[i] EXCEPT !.left = @ - NextDue(seq)]],
                          !.clock = @ + NextDue(seq)]
    /\ UNCHANGED <<trailVars, tapVars>>

TimerFires ==
    /\ \E i \in 1..Len(seq.timers) : seq.timers[i].left = 0
    /\ LET i == DueTimer(seq)
       IN  seq' = timerCallback([seq EXCEPT !.timers = Without(@, i)], seq.timers[i].name)
    /\ UNCHANGED <<trailVars, tapVars>>

SeqNext == ImageSettle \/ AnimationEnd \/ AllThen \/ AllCatch \/ Tick \/ TimerFires

SpecSeq == SeqInit /\ [][SeqNext]_vars

\* the event loop runs the promise reactions that are queued and the timers that
\* are set; decode() and the signature animation end when they end
SpecSeqFair ==
    SpecSeq /\ WF_vars(AllThen) /\ WF_vars(AllCatch) /\ WF_vars(Tick) /\ WF_vars(TimerFires)

----------------------------------------------------------------------------
(* Specification of the sequencer of the signature variant in src/config.js *)

SeqOldInit ==
    /\ TrailIdle
    /\ TapIdle
    /\ seq \in {PageLoaded("config", pre, sig, tr, n, present) :
                  pre \in BOOLEAN, sig \in {"none", "path"}, tr \in BOOLEAN,
                  n \in 0..MaxImages, present \in SUBSET (Elements \cup GuardedElements)}

AnimationEndOld ==
    /\ seq.sigPath = "path"
    /\ seq.animEnds < MaxAnimEnds
    /\ seq' = animationEndOld([seq EXCEPT !.animEnds = @ + 1])
    /\ UNCHANGED <<trailVars, tapVars>>

SeqOldNext == AnimationEndOld \/ Tick \/ TimerFires

SpecSeqOld == SeqOldInit /\ [][SeqOldNext]_vars

----------------------------------------------------------------------------
(* Specification of the text-line preloader of src/config.js *)

TypedInit ==
    /\ TrailIdle
    /\ TapIdle
    /\ seq \in {TypedLoaded(tr, imgs, present) :
                  tr \in BOOLEAN, imgs \in Pools, present \in SUBSET TypedElements}

TypedNext == Tick \/ TimerFires

SpecTyped == TypedInit /\ [][TypedNext]_vars

----------------------------------------------------------------------------
(* Specification of the staggered reveals of src/main.js *)

RevealInit ==
    /\ TrailIdle
    /\ TapIdle
    /\ seq \in {RevealLoaded(c, l) : c \in 0..MaxCards, l \in 0..MaxLinks}

CardEnter ==
    /\ seq.enters < MaxEnters
    /\ \E i \in 0..(seq.cards - 1) :
          /\ Card(i) \notin seq.inside
          /\ seq' = cardEnter(seq, i)
    /\ UNCHANGED <<trailVars, tapVars>>

CardLeaveBack ==
    /\ \E i \in 0..(seq.cards - 1) :
          /\ Card(i) \in seq.inside
          /\ seq' = cardLeaveBack(seq, i)
    /\ UNCHANGED <<trailVars, tapVars>>

\* initContactLinks creates the trigger only when there is a .contact-link
LinksEnter ==
    /\ seq.enters < MaxEnters
    /\ seq.links > 0
    /\ "contactLinks" \notin seq.inside
    /\ seq' = linksEnter(seq)
    /\ UNCHANGED <<trailVars, tapVars>>

LinksLeaveBack ==
    /\ "contactLinks" \in seq.inside
    /\ seq' = linksLeaveBack(seq)
    /\ UNCHANGED <<trailVars, tapVars>>

RevealNext == CardEnter \/ CardLeaveBack \/ LinksEnter \/ LinksLeaveBack \/ Tick \/ TimerFires

SpecReveal == RevealInit /\ [][RevealNext]_vars

----------------------------------------------------------------------------
(* Properties of the ImageTrail *)

\* this step called render(): a frame check
FrameCheck == trail'.checked

\* squared distance of the pointer from the last stamped position
MovedSq(s) == getDistanceSq(s.mousePos.x, s.mousePos.y, s.cachePos.x, s.cachePos.y)

ThresholdSq == threshold * threshold

\* what a stamp at a frame check does to the instance
StampedOnce ==
    /\ Len(trail'.stamps) = Len(trail.stamps) + 1
    /\ trail'.stamps[Len(trail'.stamps)].idx = trail.imgIndex
    /\ Len(trail.images) > 0
    /\ trail'.imgIndex = (trail.imgIndex + 1) % Len(trail.images)
    /\ trail'.zIndex = trail.zIndex + 1
    /\ trail'.cachePos = trail.mousePos
    /\ trail'.mousePos = trail.mousePos

NotStamped ==
    /\ trail'.stamps = trail.stamps
    /\ trail'.imgIndex = trail.imgIndex
    /\ trail'.zIndex = trail.zIndex
    /\ trail'.cachePos = trail.cachePos

\* C1 as stated: every frame check with the pointer farther than the threshold
\* from the last stamped position stamps exactly once, advances the cursor by
\* one modulo the pool size and makes the pointer position the new baseline.
C1_StampWheneverMoved == [][FrameCheck /\ MovedSq(trail) > ThresholdSq => StampedOnce]_vars

\* C1, amended to a non-empty pool: a frame check with the pointer farther than
\* the threshold stamps exactly once, the cursor becomes (cursor + 1) mod pool
\* size, so it is back at its start after every pool-size stamps, the baseline
\* becomes the pointer position, and a frame check with the pointer still on
\* the baseline stamps nothing.
C1_StampWhenMoved ==
    /\ [][FrameCheck /\ MovedSq(trail) > ThresholdSq /\ Len(trail.images) > 0 => StampedOnce]_vars
    /\ [](Len(trail.images) > 0 => trail.imgIndex = Len(trail.stamps) % Len(trail.images))
    /\ [](\A i, j \in 1..Len(trail.stamps) :
            j = i + Len(trail.images) => trail.stamps[j].idx = trail.stamps[i].idx)
    /\ [][FrameCheck /\ trail.mousePos = trail.cachePos => NotStamped]_vars

\* a pool of MaxPool images has been stamped once each and the cursor is back at 0
C1_Witness ==
    /\ Len(trail.images) = MaxPool
    /\ Len(trail.stamps) = MaxPool
    /\ trail.imgIndex = 0
    /\ trail.checked
    /\ trail.cachePos = trail.mousePos

\* C2: a frame check with the pointer at most the threshold away from the last
\* stamped position (exactly the threshold included) stamps nothing and leaves
\* the cursor, the stacking counter and the baseline as they were.
C2_NoStampWithinThreshold == [][FrameCheck /\ MovedSq(trail) <= ThresholdSq => NotStamped]_vars

\* a frame check has just run with the pointer exactly 80 from the baseline
C2_Witness ==
    /\ trail.checked
    /\ MovedSq(trail) = ThresholdSq
    /\ trail.stamps = <<>>

\* C3: with a pool of 3, frame checks at (0,100), (0,150), (0,250) from the
\* fresh instance stamp pool index 0 (cursor 1), nothing, then pool index 1
\* (cursor 2).
C3_Scenario ==
    Len(trail.images) = 3 =>
      /\ scen \in {1, 2} =>
            /\ Len(trail.stamps) = 1
            /\ trail.stamps[1].idx = 0
            /\ trail.imgIndex = 1
            /\ trail.cachePos = Pos(0, 100)
      /\ scen = 3 =>
            /\ Len(trail.stamps) = 2
            /\ trail.stamps[1].idx = 0
            /\ trail.stamps[2].idx = 1
            /\ trail.imgIndex = 2
            /\ trail.cachePos = Pos(0, 250)

C3_Witness == Len(trail.images) = 3 /\ scen = 3

\* C4: at most one frame callback is pending for the instance, whatever the
\* intersection notifications (repeated ones included) and frames delivered.
C4_OneFrameLoop == Cardinality(trail.rafPending) <= 1

\* a notification repeating "intersecting" arrived while the loop was running
C4_Witness ==
    /\ ev = "repeat"
    /\ trail.isActive
    /\ Cardinality(trail.rafPending) = 1

GateClosed == ~trail.isActive

\* the gate is open and the pointer is farther than the threshold from the baseline
StampDue == trail.isActive /\ MovedSq(trail) > ThresholdSq /\ Len(trail.images) > 0

\* C5: while the intersection signal is false no frame callback is pending and
\* no step stamps, however far the pointer moves; while it is true a frame
\* callback is pending, and a pointer farther than the threshold from the
\* baseline is stamped (or the gate closes or the pointer comes back first).
C5_VisibilityGate ==
    /\ [](~trail.isActive => trail.rafPending = {})
    /\ [][~trail'.isActive => trail'.stamps = trail.stamps]_vars
    /\ [](trail.isActive => trail.rafPending # {})
    /\ StampDue ~> (GateClosed \/ ~StampDue)

\* the gate closed after stamping, and the pointer then moved past the threshold
C5_Witness ==
    /\ ~trail.isActive
    /\ ev = "move"
    /\ Len(trail.stamps) >= 1
    /\ MovedSq(trail) > ThresholdSq
    /\ Len(trail.images) > 0

----------------------------------------------------------------------------
(* Properties of the TouchImageEffect *)

\* the event could stamp at all: the pool is not empty and the event is not a
\* click on a touch-capable device
Stampable(i) ==
    /\ Len(touch.images) > 0
    /\ ~(taps[i].type = "click" /\ ontouchstart)

\* C6: of any two events delivered to onTap less than 150 ms apart at most one
\* stamps; a tap at (50,50) followed within 150 ms by a tap at (52,52), on a
\* fresh instance, stamps for the first one only.
C6_CooldownDropsSecond ==
    /\ \A i, j \in 1..Len(taps) :
          i < j /\ taps[j].t - taps[i].t < tapCooldown
            => ~(taps[i].stamped /\ taps[j].stamped)
    /\ ( /\ Len(taps) >= 2
         /\ taps[1].x = 50 /\ taps[1].y = 50
         /\ taps[2].x = 52 /\ taps[2].y = 52
         /\ taps[2].t - taps[1].t < tapCooldown
         /\ Stampable(1) )
        => ( /\ taps[1].stamped
             /\ ~taps[2].stamped
             /\ touch.stamps[1].x = 50 /\ touch.stamps[1].y = 50
             /\ Len(taps) = 2 => Len(touch.stamps) = 1 )

\* the tap at (50,50) stamped and the tap at (52,52), 100 ms later, did not
C6_Witness ==
    /\ Len(taps) = 2
    /\ taps[1].x = 50 /\ taps[2].x = 52
    /\ taps[2].t - taps[1].t = 100
    /\ taps[1].stamped
    /\ ~taps[2].stamped
    /\ Len(touch.stamps) = 1

\* C7 as stated, in the case most favourable to it (a non-empty pool, a device
\* that is not touch-capable): any two events more than 150 ms apart both stamp.
C7_BothStampAlways ==
    Len(touch.images) > 0 /\ ~ontouchstart =>
    \A i, j \in 1..Len(taps) :
        i < j /\ taps[j].t - taps[i].t > tapCooldown
          => taps[i].stamped /\ taps[j].stamped

\* C7, amended: of two events delivered one right after the other more than
\* 150 ms apart, the second always passes the cooldown check, and each of the
\* two that passed it stamps unless it is a click on a touch-capable device
\* or the pool is empty; so both stamp when the first was not itself dropped
\* by the cooldown.
C7_BothStampWhenAccepted ==
    \A i \in 1..(Len(taps) - 1) :
        taps[i + 1].t - taps[i].t > tapCooldown
          => /\ taps[i + 1].passed
             /\ Stampable(i + 1) => taps[i + 1].stamped
             /\ taps[i].passed /\ Stampable(i) => taps[i].stamped

\* two events 200 ms apart have both stamped
C7_Witness ==
    /\ Len(taps) >= 2
    /\ taps[2].t - taps[1].t > tapCooldown
    /\ taps[1].stamped
    /\ taps[2].stamped
    /\ Len(touch.stamps) = 2

\* C8: on a touch-capable device no click delivered to onTap stamps.
C8_ClickIgnoredOnTouch ==
    ontouchstart => \A i \in 1..Len(taps) : taps[i].type = "click" => ~taps[i].stamped

\* a touchstart stamped and the click that followed it after the cooldown did not
C8_Witness ==
    /\ ontouchstart
    /\ Len(taps) >= 2
    /\ taps[1].type = "touchstart" /\ taps[1].stamped
    /\ taps[2].type = "click" /\ taps[2].passed /\ ~taps[2].stamped
    /\ Len(touch.stamps) = 1

----------------------------------------------------------------------------
(* Properties of the preloader sequencer *)

\* C9, with every element the initializers dereference present: whatever
\* completion events arrive, unlockAndInit runs at most once, and when it has
\* run the scroll lock is removed and each initializer has been invoked exactly
\* once, in the fixed order.
C9_UnlockOnce ==
    Elements \subseteq seq.present =>
      /\ seq.unlockCount <= 1
      /\ seq.unlockCount = 1 =>
            /\ ~seq.isLoading
            /\ seq.initLog = InitOrder(seq.variant)

\* C10: unless a completion failed, the preloader is not faded out and
\* unlockAndInit has not run before both the promise of initHeroImages and the
\* signature promise are resolved.
C10_JoinWaitsForBoth ==
    (seq.signature # "rejected" /\ seq.imagesLoaded # "rejected") =>
      ((seq.fadeOut \/ seq.unlockCount > 0 \/ seq.timers # <<>>) =>
         (seq.imagesLoaded = "resolved" /\ seq.signature = "resolved"))

\* the signature was drawn first, the images settled afterwards, and the site
\* was then faded in and unlocked
C10_Witness ==
    /\ seq.order = << "signature", "images" >>
    /\ seq.fadeOut
    /\ seq.unlockCount = 1

\* a completion has failed, on a page that has its .preloader
Failed == seq.hasPreloader /\ joinRejected(seq)

Unlocked == seq.unlockCount = 1 /\ ~seq.isLoading

\* C11: when a completion fails (the signature promise is the one that can: the
\* promise of initHeroImages never rejects), the .catch handler fades the
\* preloader out at once and sets the 1000 ms timer whose callback is
\* unlockAndInit; the .then handler never runs, unlockAndInit runs once, and it
\* does run, whether or not the images have settled.
C11_ForcedContinuation ==
    /\ [](joinRejected(seq) => seq.joined # "then")
    /\ [](Failed /\ seq.joined = "catch" =>
            /\ seq.fadeOut
            /\ seq.unlockCount <= 1
            /\ seq.unlockCount = 0 =>
                  /\ Len(seq.timers) = 1
                  /\ seq.timers[1].name = "forced"
                  /\ seq.timers[1].left <= 1000
            /\ seq.unlockCount = 1 => ~seq.isLoading /\ seq.timers = <<>>)
    /\ [][Failed /\ seq.joined = "pending" /\ seq'.joined = "catch"
            => seq'.timers = << [name |-> "forced", left |-> 1000] >>]_vars
    /\ Failed ~> Unlocked

\* the site was unlocked by the forced continuation while an image was still decoding
C11_Witness ==
    /\ seq.joined = "catch"
    /\ seq.fadeOut
    /\ seq.unlockCount = 1
    /\ ~seq.isLoading
    /\ seq.imagesLoaded = "pending"

\* the images of the container, as a set
Appended == {seq.appended[k] : k \in 1..Len(seq.appended)}

\* C12: on a page with the trail container, no image is ever in the container
\* twice, each decode() that settles, fulfilled or rejected, appends its image
\* and no other, the promise of initHeroImages never rejects, and when it is
\* resolved every discovered image is in the container exactly once.
C12_DecodeFailureNonFatal ==
    /\ [](seq.imagesLoaded # "rejected")
    /\ [](seq.hasTrail =>
            /\ \A j, k \in 1..Len(seq.appended) : j # k => seq.appended[j] # seq.appended[k]
            /\ Appended = (1..seq.nImages) \ seq.decoding
            /\ seq.decodeFailed \subseteq Appended
            /\ seq.imagesLoaded = "resolved" <=> Appended = 1..seq.nImages)
    /\ [][seq.hasTrail /\ seq'.decoding # seq.decoding =>
            \E i \in seq.decoding : /\ seq'.decoding = seq.decoding \ {i}
                                    /\ seq'.appended = Append(seq.appended, i)]_vars

\* the promise is resolved with one image decoded and one whose decode() failed,
\* both in the container
C12_Witness ==
    /\ seq.hasTrail
    /\ seq.nImages = 2
    /\ Cardinality(seq.decodeFailed) = 1
    /\ seq.imagesLoaded = "resolved"
    /\ Len(seq.appended) = 2

----------------------------------------------------------------------------
(* Properties of the two effects *)

ValidCursor(s) == 0 <= s.imgIndex /\ s.imgIndex < Len(s.images)

\* C13 as stated: the cursor of each instance is a valid index of its pool.
C13_CursorInPool == ValidCursor(trail) /\ ValidCursor(touch)

CursorOk(s) ==
    /\ Len(s.images) > 0 => ValidCursor(s)
    /\ Len(s.images) = 0 => s.imgIndex = 0

\* C13, amended to leave the empty pool aside: the cursor of each instance is a
\* valid index of its pool when the pool is not empty, and stays 0 (which is
\* not an index of the pool) when the pool is empty.
C13_CursorInPoolUnlessEmpty == CursorOk(trail) /\ CursorOk(touch)

\* two taps have taken the tap cursor round a pool of two, back to 0
C13_Witness ==
    /\ Len(touch.images) = 2
    /\ Len(touch.stamps) = 2
    /\ touch.stamps[2].idx = 1
    /\ touch.imgIndex = 0
    /\ trail.imgIndex = 0

\* stamps made by the step
TrailStamps == Len(trail'.stamps) - Len(trail.stamps)

TapStamps == Len(touch'.stamps) - Len(touch.stamps)

\* C14: every step (a mousemove, a tap or click, a frame, an intersection
\* notification) stamps at most once per instance and raises that instance's
\* zIndex by exactly the number of stamps it made, the stamp getting the new
\* value; so zIndex never decreases and is 1 plus the number of stamps made.
C14_ZIndexMonotone ==
    /\ [][ /\ TrailStamps \in {0, 1}
           /\ trail'.zIndex = trail.zIndex + TrailStamps
           /\ TrailStamps = 1 => trail'.stamps[Len(trail'.stamps)].z = trail'.zIndex
           /\ TapStamps \in {0, 1}
           /\ touch'.zIndex = touch.zIndex + TapStamps
           /\ TapStamps = 1 => touch'.stamps[Len(touch'.stamps)].z = touch'.zIndex ]_vars
    /\ [](trail.zIndex = 1 + Len(trail.stamps) /\ touch.zIndex = 1 + Len(touch.stamps))

\* each instance has stamped once, and the gate has closed since
C14_Witness ==
    /\ trail.zIndex = 2
    /\ touch.zIndex = 2
    /\ ev = "leave"

----------------------------------------------------------------------------
(* Properties of the tap cursor *)

\* the step delivered an event to onTap
Tapped == Len(taps') = Len(taps) + 1

\* the event the step delivered passed the cooldown check and was not ignored as
\* a click on a touch-capable device
Accepted ==
    /\ taps'[Len(taps')].passed
    /\ ~(taps'[Len(taps')].type = "click" /\ ontouchstart)

CursorAdvanced ==
    /\ Len(touch.images) > 0
    /\ touch'.imgIndex = (touch.imgIndex + 1) % Len(touch.images)

CursorKept == touch'.imgIndex = touch.imgIndex

\* number of accepted events among the first n delivered
RECURSIVE AcceptedCount(_)
AcceptedCount(n) ==
    IF n = 0 THEN 0
    ELSE AcceptedCount(n - 1)
           + (IF taps[n].passed /\ ~(taps[n].type = "click" /\ ontouchstart) THEN 1 ELSE 0)

\* C15 as stated: every accepted event advances the cursor by one modulo the
\* pool size, and no other event changes it.
C15_CursorAdvancesPerTap ==
    [][Tapped => IF Accepted THEN CursorAdvanced ELSE CursorKept]_vars

\* C15, amended to a non-empty pool: every accepted event advances the cursor
\* by one modulo the pool size and stamps the image it pointed at, no dropped
\* or ignored event changes it, so the cursor is the number of accepted events
\* modulo the pool size; with an empty pool no event changes the cursor.
C15_CursorAdvancesPerStamp ==
    /\ [][Tapped /\ Len(touch.images) > 0 =>
            IF Accepted
            THEN /\ CursorAdvanced
                 /\ Len(touch'.stamps) = Len(touch.stamps) + 1
                 /\ touch'.stamps[Len(touch'.stamps)].idx = touch.imgIndex
            ELSE CursorKept /\ touch'.stamps = touch.stamps]_vars
    /\ [][Tapped /\ Len(touch.images) = 0 => CursorKept /\ touch'.stamps = touch.stamps]_vars
    /\ [](Len(touch.images) > 0 =>
            touch.imgIndex = AcceptedCount(Len(taps)) % Len(touch.images))

\* on a touch-capable device: a touchstart accepted, an event dropped by the
\* cooldown, then a click ignored; the cursor has advanced once
C15_Witness ==
    /\ ontouchstart
    /\ Len(touch.images) >= 2
    /\ Len(taps) = 3
    /\ taps[1].type = "touchstart" /\ taps[1].stamped
    /\ ~taps[2].passed
    /\ taps[3].type = "click" /\ taps[3].passed /\ ~taps[3].stamped
    /\ touch.imgIndex = 1

----------------------------------------------------------------------------
(* Properties of the text-line preloader *)

----------------------------------------------------------------------------
(* Properties of the pool snapshot *)

\* the images of the pool initImageTrail's components took, as a set
Pooled == {seq.pool[k] : k \in 1..Len(seq.pool)}

\* C17: once unlockAndInit has run on a page with the trail container, the pool
\* the components took holds every discovered image, and the container holds
\* no image that is not in the pool.
C17_PoolHoldsEveryImage ==
    seq.unlockCount > 0 /\ seq.hasTrail =>
      /\ Pooled = 1..seq.nImages
      /\ seq.appended = seq.pool

----------------------------------------------------------------------------
(* Properties of the empty pool *)

\* the step made a frame check with the pointer farther than the threshold from
\* the baseline: showNextImage was called
TrailAttempt == FrameCheck /\ MovedSq(trail) > ThresholdSq

\* the step delivered an accepted event: showImageAtPosition was called
TapAttempt == Tapped /\ Accepted

\* C18: with an empty pool a stamp attempt changes nothing: the trail's frame
\* check leaves cursor, stacking counter, baseline and stamps as they were and
\* the frame loop goes on (render returned normally, the next frame is
\* requested); an accepted tap leaves cursor, stacking counter and stamps as
\* they were.
C18_EmptyPoolSkips ==
    /\ [][TrailAttempt /\ Len(trail.images) = 0 =>
            /\ NotStamped
            /\ trail'.isActive => trail'.rafId # null /\ trail'.rafId \in trail'.rafPending]_vars
    /\ [][TapAttempt /\ Len(touch.images) = 0 =>
            /\ touch'.imgIndex = touch.imgIndex
            /\ touch'.zIndex = touch.zIndex
            /\ touch'.stamps = touch.stamps]_vars
    /\ [](Len(trail.images) = 0 =>
            /\ trail.imgIndex = 0 /\ trail.zIndex = 1
            /\ trail.cachePos = Pos(0, 0) /\ trail.stamps = <<>>)
    /\ [](Len(touch.images) = 0 =>
            touch.imgIndex = 0 /\ touch.zIndex = 1 /\ touch.stamps = <<>>)

\* with an empty pool, a frame check found the pointer past the threshold and a
\* tap was accepted; nothing was stamped and the frame loop is still running
C18_Witness ==
    /\ Len(trail.images) = 0
    /\ Len(touch.images) = 0
    /\ trail.checked
    /\ MovedSq(trail) > ThresholdSq
    /\ trail.rafPending # {}
    /\ Len(taps) = 1
    /\ taps[1].passed
    /\ ~(taps[1].type = "click" /\ ontouchstart)
    /\ trail.stamps = <<>>
    /\ touch.stamps = <<>>

----------------------------------------------------------------------------
(* Properties of the initializer sequence *)

\* the first n initializers of the sequence of src/main.js
FirstInits(n) == SubSeq(InitOrder("main"), 1, n)

InSeq(name, q) == \E k \in 1..Len(q) : q[k] = name

\* C19: when unlockAndInit has run, the scroll lock is removed; without
\* .hero__container the sequence ends in initHero, without .skills (and with
\* .hero__container) in initSkills, and in both cases the orientationchange and
\* resize listeners are not added; with both elements every initializer runs
\* and the listeners are added whichever of #image-trail, .magnetic-btn and
\* .contact-link are missing, the initializer of a missing one setting nothing
\* up and the others setting up their section.
C19_UnguardedInitAborts ==
    seq.unlockCount = 1 =>
      /\ ~seq.isLoading
      /\ "heroContainer" \notin seq.present =>
            /\ seq.initLog = FirstInits(3)
            /\ ~InSeq("initHero", seq.wired)
            /\ seq.resizeHooks = 0
      /\ "heroContainer" \in seq.present /\ "skills" \notin seq.present =>
            /\ seq.initLog = FirstInits(5)
            /\ InSeq("initHero", seq.wired) /\ ~InSeq("initSkills", seq.wired)
            /\ seq.resizeHooks = 0
      /\ Elements \subseteq seq.present =>
            /\ seq.initLog = InitOrder("main")
            /\ seq.resizeHooks = 1
            /\ InSeq("initImageTrail", seq.wired) <=> seq.hasTrail
            /\ InSeq("initFooter", seq.wired) <=> "magneticBtn" \in seq.present
            /\ InSeq("initContactLinks", seq.wired) <=> "contactLinks" \in seq.present
            /\ \A k \in 1..Len(InitOrder("main")) :
                  InitOrder("main")[k] \notin {"initImageTrail", "initFooter", "initContactLinks"}
                    => InSeq(InitOrder("main")[k], seq.wired)

\* the site is unlocked and the sequence stopped in initSkills: .skills is
\* missing, and so is #image-trail, which did not stop it
C19_Witness ==
    /\ seq.unlockCount = 1
    /\ ~seq.isLoading
    /\ ~seq.hasTrail
    /\ "heroContainer" \in seq.present
    /\ "skills" \notin seq.present
    /\ Len(seq.initLog) = 5
    /\ seq.initLog[5] = "initSkills"
    /\ seq.resizeHooks = 0

----------------------------------------------------------------------------
(* Properties of the loop flags *)

\* the step is the browser running the pending frame callback h
FrameRuns(h) == h \in trail.rafPending /\ trail' = frameCallback(Enter(trail), h)

\* C20: between handlers isActive holds exactly when rafId is not null, and
\* exactly when one frame callback is pending, which is then the one rafId
\* names; a frame callback only runs while isActive holds, and it is the one
\* rafId names.
C20_LoopFlagsConsistent ==
    /\ [](trail.isActive <=> trail.rafId # null)
    /\ [](trail.isActive <=> Cardinality(trail.rafPending) = 1)
    /\ [](trail.rafId # null => trail.rafPending = {trail.rafId})
    /\ [](trail.rafId = null => trail.rafPending = {})
    /\ [][\A h \in 1..MaxHandles : FrameRuns(h) => trail.isActive /\ h = trail.rafId]_vars

\* the loop has stamped, was stopped when the section left the viewport, and
\* has just been started again
C20_Witness ==
    /\ ev = "enter"
    /\ Len(trail.stamps) >= 1
    /\ trail.isActive
    /\ trail.rafId # null
    /\ trail.rafPending = {trail.rafId}

----------------------------------------------------------------------------
(* Properties of the ignored click *)

\* the step delivered a click on a touch-capable device
ClickOnTouch == Tapped /\ ontouchstart /\ taps'[Len(taps')].type = "click"

\* event j comes at least the cooldown after the last event before it that stamped
ClearOfLastStamp(j) ==
    \A i \in 1..(j - 1) :
        (taps[i].stamped /\ \A k \in (i + 1)..(j - 1) : ~taps[k].stamped)
          => taps[j].t - taps[i].t >= tapCooldown

\* C21: a click on a touch-capable device leaves the instance as it was,
\* lastTapTime included; so, with a non-empty pool, a touchstart at least 150 ms
\* after the last event that stamped passes the cooldown check and stamps,
\* whatever clicks came in between.
C21_IgnoredClickKeepsState ==
    /\ [][ClickOnTouch => touch' = touch]_vars
    /\ [](Len(touch.images) > 0 =>
            \A j \in 1..Len(taps) :
                taps[j].type = "touchstart" /\ ClearOfLastStamp(j)
                  => taps[j].passed /\ taps[j].stamped)

----------------------------------------------------------------------------
(* Properties of the stacking order across the two effects *)

\* the stamp s, made by this step, is above every image other than its own that
\* an earlier stamp of either instance has given a z-index
AboveEarlier(s) ==
    /\ \A k \in 1..Len(trail.stamps) : trail.stamps[k].idx # s.idx => s.z > trail.stamps[k].z
    /\ \A k \in 1..Len(touch.stamps) : touch.stamps[k].idx # s.idx => s.z > touch.stamps[k].z

\* C22: on a device without touch, with both instances on the same images, the
\* image a step stamps gets a z-index strictly greater than the z-index any
\* earlier stamp, of either instance, gave to any other image.
C22_LatestStampOnTop ==
    /\ [][TrailStamps = 1 => AboveEarlier(trail'.stamps[Len(trail'.stamps)])]_vars
    /\ [][TapStamps = 1 => AboveEarlier(touch'.stamps[Len(touch'.stamps)])]_vars

----------------------------------------------------------------------------
(* Properties of the staggered reveals *)

\* the cards and links of index 1 and above: their reveal timer has a positive delay
Delayed == {CardNames[i] : i \in 2..Len(CardNames)} \cup {LinkNames[i] : i \in 2..Len(LinkNames)}

\* C23, for the elements whose reveal is delayed by a positive time (the case
\* that does not depend on how the browser orders a 0 ms timer and a scroll
\* callback): a card or link whose trigger fired onLeaveBack last does not
\* carry the class is-visible.
C23_NoRevealAfterLeave == \A el \in seq.gone \cap Delayed : el \notin seq.visible

----------------------------------------------------------------------------
(* Properties of the unlock *)

\* both the promise of initHeroImages and the signature promise are resolved
BothCompleted == joinFulfilled(seq)

\* C24: once both completions have happened, unlockAndInit eventually runs and
\* the scroll lock is removed, with or without a .preloader element.
C24_UnlockEventually == BothCompleted ~> Unlocked

====
